---- MODULE Spec2Model ----
(***************************************************************************)
(* Model of the CeNTREX-TlF-Lindblad helpers:                              *)
(*   utils_decay.py          - the decay-channel extender                  *)
(*   generate_hamiltonian.py - the symbolic Hamiltonian builder and the    *)
(*                             rotating-frame transformer                   *)
(* Python indices are kept 0-based as values; TLA+ sequences are 1-based,  *)
(* so element i of a Python list is s[i + 1].                              *)
(***************************************************************************)
EXTENDS Integers, Sequences, FiniteSets, TLC

VARIABLES
    \* ---- decay-channel extender (utils_decay.py) ----
    dpc,             \* position of the caller: "start", "levels", "states", "done"
    QN,              \* the state list before the extension
    excited_states,  \* the excited states (the tail of QN)
    decay_channels,  \* sequence of DecayChannel records
    hamiltonian,     \* n x n matrix handed to add_levels_symbolic_hamiltonian
    C_array,         \* amplitude tensor [source][ground][excited]
    Gamma,           \* total decay rate
    indices,         \* result of get_insert_level_indices
    arr,             \* extended Hamiltonian
    states,          \* extended state list (result of add_states_QN)
    decayQN,         \* which list was passed as QN to add_decays_C_arrays
    C_out,           \* returned amplitude tensor, as radicands: C = sqrt(rad / Den)
    \* ---- Hamiltonian generation (generate_hamiltonian.py) ----
    hpc,             \* position inside the call: "start", "extract", "solve",
                     \* "frame", "subs", "anchor", "relabel", "done"
    H_int,           \* diagonal of the reference Hamiltonian, one energy per state
    couplings,       \* sequence of CouplingFields records
    transitions,     \* sequence of transition records
    call,            \* the function called: "total", "generate" or "frame"
    pols,            \* the polarization lists the builder was given
    static,          \* the static-frame Hamiltonian handed to the transformer
    coupled_states,  \* the triples (i, j, w) recorded by the transformer
    rates,           \* phase rate of every state in the transform T
    transformed,     \* the matrix the transformer is working on
    idc,             \* the coupling the re-anchoring loop is at
    status,          \* "running", "ok" or the Python exception that ended the call
    result           \* the returned matrix (<<>> when the call raised)

dvars == <<dpc, QN, excited_states, decay_channels, hamiltonian, C_array, Gamma,
           indices, arr, states, decayQN, C_out>>

hvars == <<hpc, H_int, couplings, transitions, call, pols, static,
           coupled_states, rates, transformed, idc, status, result>>

vars == <<dvars, hvars>>

\* ---- bounds of the model ----
MaxGround == 2
MaxExcited == 2
MaxChannels == 2
\* branching fractions are multiples of 1 / Den
Den == 2
\* largest number of states of a system handed to the Hamiltonian generation
MaxStates == 3

Min(a, b) == IF a < b THEN a ELSE b
Max(a, b) == IF a > b THEN a ELSE b

RECURSIVE SumSeq(_)
SumSeq(s) == IF s = <<>> THEN 0 ELSE Head(s) + SumSeq(Tail(s))

\* list.insert(idx, x) of Python (sympy's row_insert / col_insert clamp alike)
PyInsert(s, idx, x) ==
    LET pos == IF idx < 0 THEN Max(0, Len(s) + idx) ELSE Min(idx, Len(s))
    IN  SubSeq(s, 1, pos) \o <<x>> \o SubSeq(s, pos + 1, Len(s))

\* zip(a, b) stops at the shorter sequence
ZipLen(a, b) == Min(Len(a), Len(b))

ZeroEntry == <<0, 0>>
ZeroRow(n) == [j \in 1..n |-> ZeroEntry]

get_insert_level_indices_shifted(dc, qn, ex) ==
    [i \in 1..Len(dc) |-> i + Len(qn) - Len(ex)]

get_insert_level_indices(dc, qn, ex) ==
    [i \in 1..Len(dc) |-> (i - 1) + Len(qn) - Len(ex)]

add_level_symbolic_hamiltonian_row_only(H, idx) ==
    LET cols == IF H = <<>> THEN 0 ELSE Len(H[1])
        withRow == PyInsert(H, idx, ZeroRow(cols))
    IN  [r \in 1..Len(withRow) |-> withRow[r] \o <<ZeroEntry>>]

add_level_symbolic_hamiltonian(H, idx) ==
    LET cols == IF H = <<>> THEN 0 ELSE Len(H[1])
        withRow == PyInsert(H, idx, ZeroRow(cols))
    IN  [r \in 1..Len(withRow) |-> PyInsert(withRow[r], idx, ZeroEntry)]

RECURSIVE InsertLevels(_, _)
InsertLevels(H, idxs) ==
    IF idxs = <<>> THEN H
    ELSE InsertLevels(add_level_symbolic_hamiltonian(H, Head(idxs)), Tail(idxs))

\* arr = hamiltonian.copy(): the insertions act on the copy, and the record
\* returned says what the caller's matrix is after the call
add_levels_symbolic_hamiltonian(H, dc, qn, ex) ==
    LET idxs == get_insert_level_indices(dc, qn, ex)
    IN  [indices |-> idxs, arr |-> InsertLevels(H, idxs), hamiltonian |-> H]

RECURSIVE InsertStates(_, _, _, _)
InsertStates(lst, idxs, dc, i) ==
    IF i > ZipLen(idxs, dc) THEN lst
    ELSE InsertStates(PyInsert(lst, idxs[i], dc[i].ground), idxs, dc, i + 1)

add_states_QN_alias(dc, qn, idxs) ==
    LET ext == InsertStates(qn, idxs, dc, 1)
    IN  [states |-> ext, QN |-> ext]

\* states = copy.copy(QN): the insertions act on the copy, and the record
\* returned says what the caller's list is after the call
add_states_QN(dc, qn, idxs) ==
    [states |-> InsertStates(qn, idxs, dc, 1), QN |-> qn]

\* ---- amplitude tensor: sequence of sources, each a matrix [ground][excited] ----

ZeroInts(n) == [j \in 1..n |-> 0]

TensorDim(T) == IF T = <<>> THEN 0 ELSE Len(T[1])

add_level_C_array(T, idx) ==
    [s \in 1..Len(T) |->
        LET withRow == PyInsert(T[s], idx, ZeroInts(IF T[s] = <<>> THEN 0 ELSE Len(T[s][1])))
        IN  [r \in 1..Len(withRow) |-> PyInsert(withRow[r], idx, 0)]]

RECURSIVE add_levels_C_array(_, _)
add_levels_C_array(T, idxs) ==
    IF idxs = <<>> THEN T
    ELSE add_levels_C_array(add_level_C_array(T, Head(idxs)), Tail(idxs))

\* QuantumSelector.get_indices: the indices of the states of qn the selector
\* matches, ascending; a selector is modelled by the set of labels it matches
RECURSIVE get_indices_from(_, _, _)
get_indices_from(sel, qn, i) ==
    IF i > Len(qn) THEN <<>>
    ELSE (IF qn[i] \in sel THEN <<i - 1>> ELSE <<>>) \o get_indices_from(sel, qn, i + 1)

get_indices(sel, qn) == get_indices_from(sel, qn, 1)

SeqToSet(s) == {s[i] : i \in 1..Len(s)}

RECURSIVE Flatten(_)
Flatten(ss) == IF ss = <<>> THEN <<>> ELSE Head(ss) \o Flatten(Tail(ss))

\* BR_added: total branching (numerator over Den) added per excited index
BR_added_sum(dc, ides, ide) ==
    SumSeq([j \in 1..ZipLen(ides, dc) |->
              IF ide \in SeqToSet(ides[j]) THEN dc[j].branching ELSE 0])

BR_added_keys(dc, ides) ==
    UNION {SeqToSet(ides[j]) : j \in 1..ZipLen(ides, dc)}

\* BR_new: one slice, zero but for the branching at (idg, ide)
BR_new(dim, idg, ide, val) ==
    [g \in 1..dim |-> [e \in 1..dim |->
        IF g - 1 = idg /\ e - 1 = ide THEN val ELSE 0]]

\* add_decays_C_arrays.  Branching ratios are exact rationals: the entries of
\* BR are numerators over the common denominator gam * Den.  The returned
\* amplitudes sqrt(BR * gam) are kept as their radicands, numerators over Den.
add_decays_C_arrays_noscale(dc, idxs, qn, C, gam) ==
    LET lev == add_levels_C_array(C, idxs)
        dim == TensorDim(lev)
        ides == [j \in 1..Len(dc) |-> get_indices(dc[j].excited, qn)]
        old == [s \in 1..Len(lev) |-> [g \in 1..dim |-> [e \in 1..dim |->
                   lev[s][g][e] * lev[s][g][e] * Den]]]
        n3 == Min(Len(idxs), Len(dc))
        new == Flatten([j \in 1..n3 |->
                   [m \in 1..Len(ides[j]) |->
                       BR_new(dim, idxs[j], ides[j][m], dc[j].branching * gam)]])
    IN  old \o new

\* a slice is appended for every channel, matched or not
add_decays_C_arrays_slice_per_channel(dc, idxs, qn, C, gam) ==
    LET lev == add_levels_C_array(C, idxs)
        dim == TensorDim(lev)
        ides == [j \in 1..Len(dc) |-> get_indices(dc[j].excited, qn)]
        keys == BR_added_keys(dc, ides)
        scaled == [s \in 1..Len(lev) |-> [g \in 1..dim |-> [e \in 1..dim |->
                   IF (e - 1) \in keys
                   THEN lev[s][g][e] * lev[s][g][e] * (Den - BR_added_sum(dc, ides, e - 1))
                   ELSE lev[s][g][e] * lev[s][g][e] * Den]]]
        n3 == Min(Len(idxs), Len(dc))
        new == Flatten([j \in 1..n3 |->
                   IF ides[j] = <<>>
                   THEN <<BR_new(dim, idxs[j], 0 - 1, 0)>>
                   ELSE [m \in 1..Len(ides[j]) |->
                           BR_new(dim, idxs[j], ides[j][m], dc[j].branching * gam)]])
    IN  scaled \o new

add_decays_C_arrays(dc, idxs, qn, C, gam) ==
    LET lev == add_levels_C_array(C, idxs)
        dim == TensorDim(lev)
        \* BR = BR ** 2 / gam : numerators over gam
        BR == [s \in 1..Len(lev) |-> [g \in 1..dim |-> [e \in 1..dim |->
                   lev[s][g][e] * lev[s][g][e]]]]
        ides == [j \in 1..Len(dc) |-> get_indices(dc[j].excited, qn)]
        keys == BR_added_keys(dc, ides)
        \* BR[:, :, ide] *= 1 - BR_add : numerators over gam * Den
        scaled == [s \in 1..Len(BR) |-> [g \in 1..dim |-> [e \in 1..dim |->
                   IF (e - 1) \in keys
                   THEN BR[s][g][e] * (Den - BR_added_sum(dc, ides, e - 1))
                   ELSE BR[s][g][e] * Den]]]
        n3 == Min(Len(idxs), Len(dc))
        new == Flatten([j \in 1..n3 |->
                   [m \in 1..Len(ides[j]) |->
                       BR_new(dim, idxs[j], ides[j][m], dc[j].branching * gam)]])
    IN  scaled \o new

\* ---- inputs of the decay-channel extender ----

GroundLabels(ng) == [i \in 1..ng |-> <<"g", i>>]
ExcitedLabels(ne) == [i \in 1..ne |-> <<"e", i>>]

Selectors == SUBSET {<<"e", i>> : i \in 1..MaxExcited}
Branchings == {1, Den}

DecayChannel(j, sel, b) == [ground |-> <<"d", j>>, excited |-> sel, branching |-> b]

ChannelSeqs ==
    UNION {{[j \in 1..k |-> DecayChannel(j, f[j][1], f[j][2])] :
               f \in [1..k -> Selectors \X Branchings]} : k \in 0..MaxChannels}

\* an n x n Hamiltonian whose entry (i, j) is tagged with its own position
TaggedMatrix(n) == [i \in 1..n |-> [j \in 1..n |-> <<i, j>>]]

\* normalised amplitude tensors with two sources: every excited column holds
\* amplitudes whose squares sum to gam
Families == {"split", "double"}
FamilyGamma(fam) == IF fam = "single" THEN 1 ELSE IF fam = "split" THEN 2 ELSE 4
FamilyTensor(fam, ng, ne) ==
    [s \in 1..2 |-> [g \in 1..(ng + ne) |-> [e \in 1..(ng + ne) |->
        IF e <= ng THEN 0
        ELSE IF fam = "single" THEN (IF s = 1 /\ g = 1 THEN 1 ELSE 0)
        ELSE IF fam = "split"
             THEN (IF (s = 1 /\ g = 1) \/ (s = 2 /\ g = ng) THEN 1 ELSE 0)
        ELSE (IF s = 2 /\ g = ng THEN 2 ELSE 0)]]]

DInit ==
    /\ dpc = "start"
    /\ \E ng \in {1, MaxGround}, ne \in {1, MaxExcited}, fam \in Families :
         /\ QN = GroundLabels(ng) \o ExcitedLabels(ne)
         /\ excited_states = ExcitedLabels(ne)
         /\ hamiltonian = TaggedMatrix(ng + ne)
         /\ C_array = FamilyTensor(fam, ng, ne)
         /\ Gamma = FamilyGamma(fam)
    /\ decay_channels \in ChannelSeqs
    /\ indices = <<>>
    /\ arr = <<>>
    /\ states = <<>>
    /\ decayQN = "none"
    /\ C_out = <<>>

AddLevelsSymbolicHamiltonian ==
    /\ dpc = "start"
    /\ LET r == add_levels_symbolic_hamiltonian(hamiltonian, decay_channels,
                                                QN, excited_states)
       IN  /\ indices' = r.indices
           /\ arr' = r.arr
           /\ hamiltonian' = r.hamiltonian
    /\ dpc' = "levels"
    /\ UNCHANGED <<QN, excited_states, decay_channels, C_array,
                   Gamma, states, decayQN, C_out>>
    /\ UNCHANGED hvars

AddStatesQN ==
    /\ dpc = "levels"
    /\ LET r == add_states_QN(decay_channels, QN, indices)
       IN  /\ states' = r.states
           /\ QN' = r.QN
    /\ dpc' = "states"
    /\ UNCHANGED <<excited_states, decay_channels, hamiltonian, C_array,
                   Gamma, indices, arr, decayQN, C_out>>
    /\ UNCHANGED hvars

\* the caller passes either the list it started from or the extended list
AddDecaysCArrays ==
    /\ dpc = "states"
    /\ \E which \in {"pre", "ext"} :
         /\ decayQN' = which
         /\ C_out' = add_decays_C_arrays(decay_channels, indices,
                                         IF which = "pre" THEN QN ELSE states,
                                         C_array, Gamma)
    /\ dpc' = "done"
    /\ UNCHANGED <<QN, excited_states, decay_channels, hamiltonian, C_array,
                   Gamma, indices, arr, states>>
    /\ UNCHANGED hvars

DNext ==
    \/ AddLevelsSymbolicHamiltonian
    \/ AddStatesQN
    \/ AddDecaysCArrays

\* the extender runs alone: nothing of the Hamiltonian generation is in use
HIdle ==
    /\ hpc = "idle"
    /\ H_int = <<>>
    /\ couplings = <<>>
    /\ transitions = <<>>
    /\ call = "none"
    /\ pols = <<>>
    /\ static = <<>>
    /\ coupled_states = <<>>
    /\ rates = <<>>
    /\ transformed = <<>>
    /\ idc = 0
    /\ status = "none"
    /\ result = <<>>

DecayInit == DInit /\ HIdle
DecaySpec == DecayInit /\ [][DNext]_vars

\* ---- properties of the decay-channel extender ----

NGround == Len(QN) - Len(excited_states)
NChannels == Len(decay_channels)
\* where index i (1-based) of the old basis sits in the extended basis
Shifted(i) == IF i - 1 >= NGround THEN i + NChannels ELSE i

\* C2: get_insert_level_indices returns range(ng, ng + k) for ng =
\* len(QN) - len(excited_states); add_states_QN returns a list of length
\* len(QN) + k with the j-th channel's ground state at index ng + j, the
\* original states in their order around the new block, and QN untouched.
C2_InsertIndicesAndStates ==
    /\ dpc # "start" =>
          /\ Len(indices) = NChannels
          /\ \A j \in 1..NChannels : indices[j] = NGround + (j - 1)
    /\ dpc \in {"states", "done"} =>
          /\ Len(states) = Len(QN) + NChannels
          /\ \A j \in 1..NChannels :
                states[NGround + j] = decay_channels[j].ground
          /\ \A i \in 1..Len(QN) : states[Shifted(i)] = QN[i]
          /\ QN = GroundLabels(NGround) \o excited_states

C2_Witness ==
    /\ dpc = "states"
    /\ NChannels = MaxChannels
    /\ NGround = MaxGround
    /\ Len(excited_states) = MaxExcited

\* C3: add_levels_symbolic_hamiltonian returns an (n+k) x (n+k) matrix whose
\* rows and columns at the insertion indices are zero and whose other
\* entries are the original H[i,j] at (f(i), f(j)), f shifting the indices
\* at or above the first insertion index by k; the input is left unmodified.
C3_ExtendedHamiltonian ==
    dpc # "start" =>
       LET n == Len(hamiltonian)
       IN  /\ hamiltonian = TaggedMatrix(Len(QN))
           /\ Len(arr) = n + NChannels
           /\ \A r \in 1..Len(arr) : Len(arr[r]) = n + NChannels
           /\ \A j \in 1..NChannels : \A m \in 1..(n + NChannels) :
                 /\ arr[indices[j] + 1][m] = ZeroEntry
                 /\ arr[m][indices[j] + 1] = ZeroEntry
           /\ \A i \in 1..n : \A j \in 1..n :
                 arr[Shifted(i)][Shifted(j)] = hamiltonian[i][j]

C3_Witness ==
    /\ dpc = "levels"
    /\ NChannels = MaxChannels
    /\ NGround = MaxGround
    /\ Len(excited_states) = MaxExcited
    /\ arr[Len(arr)][Len(arr)] = <<Len(QN), Len(QN)>>

\* ---- branching-ratio normalisation ----

PosIn(lst, x) == CHOOSE i \in 1..Len(lst) : lst[i] = x

\* sum of the radicands of column e (1-based) over all sources and grounds;
\* the branching ratios of the returned tensor are radicand / (Den * Gamma)
ColumnSum(T, e) ==
    SumSeq([s \in 1..Len(T) |-> SumSeq([g \in 1..Len(T[s]) |-> T[s][g][e]])])

\* summed branching (over Den) of the channels whose selector matches label
BranchingInto(label) ==
    SumSeq([j \in 1..NChannels |->
              IF label \in decay_channels[j].excited
              THEN decay_channels[j].branching ELSE 0])

BranchingWithinOne ==
    \A m \in 1..Len(excited_states) : BranchingInto(excited_states[m]) <= Den

Normalised(T) ==
    \A m \in 1..Len(excited_states) :
        ColumnSum(T, PosIn(states, excited_states[m])) = Den * Gamma

\* the prior entries of every excited state are scaled by 1 - b, b the summed
\* branching of the channels targeting it, and every targeting channel adds a
\* slice holding its branching at (its insertion index, the state's index)
ScaledAsTargeted(T) ==
    \A m \in 1..Len(excited_states) :
       LET old == NGround + m
           pos == PosIn(states, excited_states[m])
           b == BranchingInto(excited_states[m])
       IN  /\ \A s \in 1..Len(C_array) : \A g \in 1..Len(QN) :
                 T[s][Shifted(g)][pos] =
                     C_array[s][g][old] * C_array[s][g][old] * (Den - b)
           /\ \A j \in 1..NChannels :
                 excited_states[m] \in decay_channels[j].excited =>
                    \E s \in (Len(C_array) + 1)..Len(T) :
                       T[s][indices[j] + 1][pos] =
                           decay_channels[j].branching * Gamma

\* C1 as stated: with the pre-extension state list passed as QN, every
\* excited state's branching ratios in the returned tensor sum to 1, the
\* prior entries of a targeted state being scaled by 1 - b and the new entry
\* being b.
C1_Original ==
    (dpc = "done" /\ decayQN = "pre" /\ BranchingWithinOne) =>
       Normalised(C_out) /\ ScaledAsTargeted(C_out)

\* C1 amended: whichever of the two lists is passed as QN, every excited
\* state's branching ratios in the returned tensor sum to 1 at the index the
\* state has in the extended tensor; when the extended state list (the
\* result of add_states_QN) is passed, the prior entries of a state targeted
\* with summed branching b are scaled by 1 - b and the new entry equals b.
C1_NormalisationPreserved ==
    (dpc = "done" /\ BranchingWithinOne) =>
       /\ Normalised(C_out)
       /\ decayQN = "ext" => ScaledAsTargeted(C_out)

C1_Witness ==
    /\ dpc = "done"
    /\ decayQN = "ext"
    /\ BranchingWithinOne
    /\ NChannels = MaxChannels
    /\ Len(excited_states) = MaxExcited
    /\ BranchingInto(excited_states[1]) = Den
    /\ \A j \in 1..NChannels : excited_states[1] \in decay_channels[j].excited
    /\ BranchingInto(excited_states[MaxExcited]) < Den

\* ---- channels whose selector matches nothing ----

Unmatched(j) == get_indices(decay_channels[j].excited, states) = <<>>

RemoveAt(s, i) == SubSeq(s, 1, i - 1) \o SubSeq(s, i + 1, Len(s))

\* the tensor without row and column idx (0-based) of every source
RemoveRowCol(T, idx) ==
    [s \in 1..Len(T) |->
        LET rows == RemoveAt(T[s], idx + 1)
        IN  [r \in 1..Len(rows) |-> RemoveAt(rows[r], idx + 1)]]

\* the same extension made with every channel but the j-th
OthersAlone(j, which) ==
    LET dc2 == RemoveAt(decay_channels, j)
        idx2 == get_insert_level_indices(dc2, QN, excited_states)
        qn2 == IF which = "pre" THEN QN ELSE add_states_QN(dc2, QN, idx2).states
    IN  add_decays_C_arrays(dc2, idx2, qn2, C_array, Gamma)

MatchedSlices ==
    SumSeq([j \in 1..NChannels |->
              Len(get_indices(decay_channels[j].excited, states))])

StillAllocated(j) ==
    /\ Len(indices) = NChannels
    /\ states[indices[j] + 1] = decay_channels[j].ground
    /\ \A m \in 1..Len(arr) :
          arr[indices[j] + 1][m] = ZeroEntry /\ arr[m][indices[j] + 1] = ZeroEntry

\* C10 as stated: whatever list is passed as QN, the tensor equals the one
\* obtained from the other channels alone, apart from the zero row and
\* column at the unmatched channel's insertion index.
C10_Original ==
    dpc = "done" =>
       \A j \in 1..NChannels :
          Unmatched(j) =>
             /\ StillAllocated(j)
             /\ RemoveRowCol(C_out, indices[j]) = OthersAlone(j, decayQN)

\* C10 amended: a channel matching no state gets its index, its zero row and
\* column and its ground state, and adds no source slice (the slices added
\* are those of the matched channels); when the extended state list is
\* passed as QN the tensor equals the one obtained from the other channels
\* alone, apart from the zero row and column at that channel's index.
C10_UnmatchedIsNoOp ==
    dpc = "done" =>
       /\ Len(C_out) = Len(C_array) + MatchedSlices
       /\ \A j \in 1..NChannels :
             Unmatched(j) =>
                /\ StillAllocated(j)
                /\ decayQN = "ext" =>
                      RemoveRowCol(C_out, indices[j]) = OthersAlone(j, "ext")

C10_Witness ==
    /\ dpc = "done"
    /\ decayQN = "ext"
    /\ NChannels = MaxChannels
    /\ Unmatched(1)
    /\ ~Unmatched(NChannels)
    /\ Len(C_out) = Len(C_array) + 1

\* ==== generate_hamiltonian.py ====
\* States are numbered 1..n here: state k is Python index k - 1, and the
\* symbols E{k-1}, a{k-1} are <<"E", k>>, <<"a", k>>; coupling c (1-based)
\* owns the frequency symbol <<"w", c>> ("w{c-1}" in the source).

\* the one element of a singleton; used to evaluate an argument once
Only(S) == CHOOSE r \in S : TRUE

\* ---- linear forms: finite maps from symbols to nonzero integer
\* coefficients; the symbol One carries the constant part ----

One == <<"1", 0>>
LZero == [s \in {} |-> 0]
LSym(sym) == [s \in {sym} |-> 1] @@ LZero
LCoef(f, sym) == IF sym \in DOMAIN f THEN f[sym] ELSE 0
LAdd(f, g) ==
    Only({[s \in {z \in DOMAIN x \cup DOMAIN y : LCoef(x, z) + LCoef(y, z) # 0} |->
              LCoef(x, s) + LCoef(y, s)] @@ LZero : x \in {f}, y \in {g}})
LScale(k, f) ==
    Only({[s \in {z \in DOMAIN x : kk * x[z] # 0} |-> kk * x[s]] @@ LZero :
             x \in {f}, kk \in {k}})
LNeg(f) == LScale(0 - 1, f)
LSub(f, g) == LAdd(f, LNeg(g))
LConst(k) == LScale(k, LSym(One))
\* expr.subs(sym, g)
LSubs(f, sym, g) ==
    Only({IF sym \in DOMAIN x
          THEN LAdd([s \in DOMAIN x \ {sym} |-> x[s]] @@ LZero, LScale(x[sym], g))
          ELSE x : x \in {f}})
\* expr.subs([(s, 0) for s in expr.free_symbols]): the constant part
LStrip(f) == LConst(LCoef(f, One))

\* ---- matrix entries: a linear form plus a set of coupling terms
\*   num / (2 * main) * pol * rabi * exp(i * phase * t)  ----

Term(rabi, pol, main, num, phase) ==
    [rabi |-> rabi, conj |-> FALSE, pol |-> pol, main |-> main,
     num |-> num, phase |-> phase]

TermKey(t) == [rabi |-> t.rabi, conj |-> t.conj, pol |-> t.pol,
               main |-> t.main, phase |-> t.phase]

\* sympy's automatic collection of like terms in a sum
Collect(contribs) ==
    Only({{[rabi |-> k.rabi, conj |-> k.conj, pol |-> k.pol, main |-> k.main,
            num |-> SumSeq([m \in 1..Len(cs) |->
                              IF TermKey(cs[m]) = k THEN cs[m].num ELSE 0]),
            phase |-> k.phase] :
              k \in {x \in {TermKey(cs[m]) : m \in 1..Len(cs)} :
                        SumSeq([m \in 1..Len(cs) |->
                                  IF TermKey(cs[m]) = x THEN cs[m].num ELSE 0]) # 0}} :
          cs \in {contribs}})

Entry(lin, terms) == [lin |-> lin, terms |-> terms]
NonZero(e) == e.lin # LZero \/ e.terms # {}

\* a matrix given by its entries, stored row by row
Matrix(n, e(_, _)) == [i \in 1..n |-> [j \in 1..n |-> e(i, j)] \o <<>>] \o <<>>

\* ---- generate_symbolic_hamiltonian: the builder (lines 122-173) ----

\* "pols" as the builder sees it: <<>> is an empty list; an entry <<>> is
\* None (or an empty list); the string "None" is a None inside a list
PolError(P, c, f) ==
    IF P = <<>> THEN "none"
    ELSE IF c > Len(P) THEN "IndexError"
    ELSE IF P[c] = <<>> THEN "none"
    ELSE IF f > Len(P[c]) THEN "IndexError"
    ELSE IF P[c][f] = "None" THEN "TypeError"
    ELSE "none"

\* the polarization symbol is never multiplied in
PolFactor_dropped(P, c, f) == "1"

\* lines 139-163: the factor _P of the coefficient, "1" when there is none
PolFactor(P, c, f) ==
    IF P = <<>> THEN "1"
    ELSE IF P[c] = <<>> THEN "1"
    ELSE P[c][f]

\* the (coupling, field) pairs in the order the two loops visit them
FieldVisits(cs, Oms) ==
    Flatten([c \in 1..ZipLen(Oms, cs) |->
                [f \in 1..Len(cs[c].fields) |-> <<c, f>>]])

RECURSIVE FirstError(_)
FirstError(errs) ==
    IF errs = <<>> THEN "none"
    ELSE IF Head(errs) # "none" THEN Head(errs)
    ELSE FirstError(Tail(errs))

\* the exception of the first visited field that raises one
BuilderError(cs, Oms, P) ==
    Only({FirstError([m \in 1..Len(v) |-> PolError(P, v[m][1], v[m][2])] \o <<>>) :
             v \in {FieldVisits(cs, Oms)}})

\* what the loops add to hamiltonian[i, j], i # j
Contributions(cs, Oms, P, i, j) ==
    Only({[m \in 1..Len(hit) |->
              Term(Oms[hit[m][1]], PolFactor(P, hit[m][1], hit[m][2]),
                   cs[hit[m][1]].main_coupling,
                   cs[hit[m][1]].fields[hit[m][2]][i][j],
                   IF i < j THEN LSym(<<"w", hit[m][1]>>)
                   ELSE LNeg(LSym(<<"w", hit[m][1]>>)))] \o <<>> :
          hit \in {SelectSeq(FieldVisits(cs, Oms),
                     LAMBDA x : cs[x[1]].fields[x[2]][Min(i, j)][Max(i, j)] # 0)}})

BuildStatic(n, cs, Oms, P) ==
    Matrix(n, LAMBDA i, j :
        IF i = j THEN Entry(LSym(<<"E", i>>), {})
        ELSE Entry(LZero, Collect(Contributions(cs, Oms, P, i, j))))

\* ---- symbolic_hamiltonian_to_rotating_frame ----

\* the free symbols of an entry whose name starts with the frequency letter
OmegaSyms(e) ==
    {sym \in (DOMAIN e.lin) \cup UNION {DOMAIN t.phase : t \in e.terms} :
        sym[1] = "w"}

\* zip(*np.nonzero(hamiltonian)) restricted to i < j, in row-major order
UpperNonZero(H, n) ==
    SelectSeq(Flatten(Matrix(n, LAMBDA i, j : <<i, j>>)),
              LAMBDA x : x[1] < x[2] /\ NonZero(H[x[1]][x[2]]))

\* the assert is compiled away: an entry with several symbols is accepted
\* and one of them is recorded
ExtractCoupled_no_assert(H, n) ==
    Only({[ok |-> \A m \in 1..Len(up) : OmegaSyms(H[up[m][1]][up[m][2]]) # {},
           coupled |-> [m \in 1..Len(up) |->
               <<up[m][1], up[m][2],
                 Only({sym \in OmegaSyms(H[up[m][1]][up[m][2]]) \cup {<<"w", 0>>} :
                         \A o \in OmegaSyms(H[up[m][1]][up[m][2]]) \cup {<<"w", 0>>} :
                             sym[2] >= o[2]})>>] \o <<>>] :
          up \in {UpperNonZero(H, n)}})

\* lines 44-50: the assert ends the call at the first entry that does not
\* hold exactly one frequency symbol
ExtractCoupled(H, n) ==
    Only({IF \A m \in 1..Len(up) :
                Cardinality(OmegaSyms(H[up[m][1]][up[m][2]])) = 1
          THEN [ok |-> TRUE,
                coupled |-> [m \in 1..Len(up) |->
                    <<up[m][1], up[m][2], Only(OmegaSyms(H[up[m][1]][up[m][2]]))>>]
                    \o <<>>]
          ELSE [ok |-> FALSE, coupled |-> <<>>] :
          up \in {UpperNonZero(H, n)}})

\* the two states of the pair are exchanged
EqRow_swapped(n, tr) ==
    [coef |-> [k \in 1..n |-> IF k = tr[2] THEN 1 ELSE IF k = tr[1] THEN 0 - 1 ELSE 0]
                 \o <<>>,
     rhs |-> LSym(tr[3])]

\* line 57: the equation  w - (a_i - a_j) = 0  as a row  a_i - a_j = w
EqRow(n, tr) ==
    [coef |-> [k \in 1..n |-> IF k = tr[1] THEN 1 ELSE IF k = tr[2] THEN 0 - 1 ELSE 0]
                 \o <<>>,
     rhs |-> LSym(tr[3])]

RowScale(k, row) ==
    [coef |-> [q \in DOMAIN row.coef |-> k * row.coef[q]] \o <<>>,
     rhs |-> LScale(k, row.rhs)]
RowSub(row, k, piv) ==
    [coef |-> [q \in DOMAIN row.coef |-> row.coef[q] - k * piv.coef[q]] \o <<>>,
     rhs |-> LSub(row.rhs, LScale(k, piv.rhs))]

SetMin(S) == CHOOSE x \in S : \A y \in S : x <= y
SetMax(S) == CHOOSE x \in S : \A y \in S : x >= y

\* one step of the elimination: row r0 becomes the pivot row prow of column
\* col (the pivots of these difference equations are always 1 or -1)
Eliminate(R, col, prow, r0) ==
    Only({[r \in 1..Len(R) |->
              IF r = prow THEN piv
              ELSE IF r = r0 THEN RowSub(R[prow], R[prow].coef[col], piv)
              ELSE RowSub(R[r], R[r].coef[col], piv)] \o <<>> :
          piv \in {RowScale(R[r0].coef[col], R[r0])}})

PivotRows(R, col, prow) == {r \in prow..Len(R) : R[r].coef[col] # 0}

\* Gauss-Jordan elimination with the unknowns in the order a_1 .. a_n
RECURSIVE Rref(_, _, _, _)
Rref(rows, col, prow, n) ==
    Only({IF col > n \/ prow > Len(R) THEN R
          ELSE IF PivotRows(R, col, prow) = {} THEN Rref(R, col + 1, prow, n)
          ELSE Rref(Eliminate(R, col, prow, SetMin(PivotRows(R, col, prow))),
                    col + 1, prow + 1, n) :
          R \in {rows}})

ZeroCoef(row) == \A q \in DOMAIN row.coef : row.coef[q] = 0
Lead(row) == SetMin({q \in DOMAIN row.coef : row.coef[q] # 0})

\* the pivot unknown of a reduced row in terms of the other unknowns
SolOf(row, k, n) ==
    LAdd(row.rhs,
         [sym \in {<<"a", q>> : q \in {x \in 1..n : x # k /\ row.coef[x] # 0}} |->
             0 - row.coef[sym[2]]] @@ LZero)

\* line 59, smp.solve(Eqns, A): a dict giving every pivot unknown in terms
\* of the free unknowns and the frequency symbols; an empty list (which has
\* no keys()) when there is no equation or no solution
Solve(n, coupled) ==
    Only({IF R # <<>> /\ \A r \in 1..Len(R) : ZeroCoef(R[r]) => R[r].rhs = LZero
          THEN [solved |-> TRUE,
                sol |-> [k \in {Lead(R[r]) : r \in {x \in 1..Len(R) : ~ZeroCoef(R[x])}} |->
                           SolOf(R[Only({r \in 1..Len(R) :
                                     ~ZeroCoef(R[r]) /\ Lead(R[r]) = k})], k, n)]
                        @@ <<>>]
          ELSE [solved |-> FALSE, sol |-> <<>>] :
          R \in {Rref([m \in 1..Len(coupled) |-> EqRow(n, coupled[m])] \o <<>>,
                      1, 1, n)}})

\* lines 61-64: sol[key] = val.subs(free_param, 0) for every unknown that is
\* no key of the solution
ZeroFree(f, keys) ==
    [sym \in {x \in DOMAIN f : ~(x[1] = "a" /\ x[2] \notin keys)} |-> f[sym]] @@ LZero

\* lines 67-70: T = diag(exp(i * a_k * t)) for the solved unknowns, 1 elsewhere
Rates(n, sol) ==
    [k \in 1..n |-> IF k \in DOMAIN sol THEN ZeroFree(sol[k], DOMAIN sol) ELSE LZero]
       \o <<>>

\* the time derivative of T enters with the wrong sign
ApplyFrame_minus(H, n, rt) ==
    Matrix(n, LAMBDA i, j :
        Entry(IF i = j THEN LSub(H[i][j].lin, rt[i]) ELSE H[i][j].lin,
              {[t EXCEPT !.phase = LAdd(LSub(t.phase, rt[i]), rt[j])] :
                  t \in H[i][j].terms}))

\* lines 73-76: T.adjoint() @ hamiltonian @ T - 1j * T.adjoint() @ diff(T, t),
\* simplified
ApplyFrame(H, n, rt) ==
    Matrix(n, LAMBDA i, j :
        Entry(IF i = j THEN LAdd(H[i][j].lin, rt[i]) ELSE H[i][j].lin,
              {[t EXCEPT !.phase = LAdd(LSub(t.phase, rt[i]), rt[j])] :
                  t \in H[i][j].terms}))

\* the same substitution in every entry of the matrix
MatSubs(M, n, sym, g) ==
    Only({Matrix(n, LAMBDA i, j :
              Entry(LSubs(X[i][j].lin, sym, G),
                    {[t EXCEPT !.phase = LSubs(t.phase, sym, G)] :
                        t \in X[i][j].terms})) :
          X \in {M}, G \in {g}})

\* lines 78-85: w{idc} -> energies[ide] - energies[idg] + delta
RECURSIVE SubstituteDetunings(_, _, _, _, _, _)
SubstituteDetunings(M, n, energies, cs, ds, c) ==
    IF c > ZipLen(ds, cs) THEN M
    ELSE SubstituteDetunings(
            MatSubs(M, n, <<"w", c>>,
                    LAdd(LSub(energies[cs[c].excited_main], energies[cs[c].ground_main]),
                         LSym(ds[c]))),
            n, energies, cs, ds, c + 1)

\* lines 88-90: every energy symbol of the diagonal -> its value in H_int
RECURSIVE SubstituteEnergies(_, _, _, _, _)
SubstituteEnergies(M, n, energies, Hint, k) ==
    IF k > n THEN M
    ELSE SubstituteEnergies(
            MatSubs(M, n, Only(DOMAIN energies[k]), LConst(Hint[k])),
            n, energies, Hint, k + 1)

Count(seq, x) == Cardinality({m \in 1..Len(seq) : seq[m] = x})

\* the residual of the excited reference state is not subtracted
ReAnchorOne_ground_only(M, n, cp) ==
    Only({Matrix(n, LAMBDA i, j :
              IF i = j
              THEN Entry(LSub(M[i][j].lin, LScale(Count(cp.ground_states, i), g)),
                         M[i][j].terms)
              ELSE M[i][j]) :
          g \in {LStrip(M[cp.ground_main][cp.ground_main].lin)}})

\* lines 96-109 for one coupling: the symbol-free residuals of the two
\* reference states are subtracted at every index of their manifolds
ReAnchorOne(M, n, cp) ==
    Only({Matrix(n, LAMBDA i, j :
              IF i = j
              THEN Entry(LSub(LSub(M[i][j].lin, LScale(Count(cp.ground_states, i), g)),
                              LScale(Count(cp.excited_states, i), e)),
                         M[i][j].terms)
              ELSE M[i][j]) :
          g \in {LStrip(M[cp.ground_main][cp.ground_main].lin)},
          e \in {LStrip(M[cp.excited_main][cp.excited_main].lin)}})

\* lines 180-184: below the diagonal every Rabi symbol becomes its conjugate
Relabel(M, n, Oms) ==
    Matrix(n, LAMBDA i, j :
        IF j < i
        THEN Entry(M[i][j].lin,
                   {[t EXCEPT !.conj = (t.rabi \in SeqToSet(Oms)) \/ t.conj] :
                       t \in M[i][j].terms})
        ELSE M[i][j])

\* ---- the calls and their inputs ----

RECURSIVE SortedSeq(_)
SortedSeq(S) == IF S = {} THEN <<>> ELSE <<SetMin(S)>> \o SortedSeq(S \ {SetMin(S)})

\* a field matrix: 1 at the coupled pairs (both triangles), 0 elsewhere
FieldMatrix(n, pairs) ==
    Matrix(n, LAMBDA i, j :
        IF <<i, j>> \in pairs \/ <<j, i>> \in pairs THEN 1 ELSE 0)

\* CouplingFields: the manifolds are intervals of states, the ground
\* manifold below the excited one; the fields couple every ground state to
\* every excited state ("all"), the two reference states only ("main"), or
\* there is one field of each kind ("both")
CouplingFields(n, G, Ex, gm, kind, main) ==
    [ground_main |-> gm, excited_main |-> SetMin(Ex),
     ground_states |-> SortedSeq(G), excited_states |-> SortedSeq(Ex),
     main_coupling |-> main,
     fields |-> IF kind = "all" THEN <<FieldMatrix(n, G \X Ex)>>
                ELSE IF kind = "main" THEN <<FieldMatrix(n, {<<gm, SetMin(Ex)>>})>>
                ELSE <<FieldMatrix(n, G \X Ex), FieldMatrix(n, {<<gm, SetMin(Ex)>>})>>]

Intervals(n) == {a..b : a \in 1..n, b \in 1..n} \ {{}}

CouplingOptions(n, kinds, main) ==
    {CouplingFields(n, G, Ex, gm, kind, main) :
        G \in Intervals(n), Ex \in Intervals(n), gm \in 1..n, kind \in kinds}

\* the main-coupling magnitude of the c-th coupling is c
FirstCouplings(n) ==
    {cp \in CouplingOptions(n, {"all", "main", "both"}, 1) :
        /\ cp.ground_states[Len(cp.ground_states)] < cp.excited_states[1]
        /\ cp.ground_main \in {cp.ground_states[1],
                                cp.ground_states[Len(cp.ground_states)]}}
SecondCouplings(n) ==
    {cp \in CouplingOptions(n, {"all"}, 2) :
        /\ cp.ground_states[Len(cp.ground_states)] < cp.excited_states[1]
        /\ cp.ground_main \in {cp.ground_states[1],
                                cp.ground_states[Len(cp.ground_states)]}}

\* two couplings on disjoint pairs of states: the two lowest and the two
\* highest states of the system
DisjointPairs(n) ==
    <<CouplingFields(n, {1}, {2}, 1, "all", 1),
      CouplingFields(n, {n - 1}, {n}, n - 1, "all", 2)>>

\* every sequence of at most two couplings for up to MaxStates states, and
\* the two disjoint pairs for one state more
CouplingSeqs(n) ==
    IF n > MaxStates THEN {DisjointPairs(n)}
    ELSE {<<>>} \cup {<<a>> : a \in FirstCouplings(n)}
                \cup {<<a, b>> : a \in FirstCouplings(n), b \in SecondCouplings(n)}

\* polarization_symbols of a transition: none, one per field, fewer than
\* the fields of a two-field coupling, or a list holding a None
PolOptions == {<<>>, <<"P1", "P2">>, <<"P1">>, <<"None", "P2">>}

Transition(c, P) ==
    [Omega |-> <<"O", c>>, delta |-> <<"d", c>>, polarization_symbols |-> P]

TransitionSeqs ==
    {<<>>} \cup {<<Transition(1, P)>> : P \in PolOptions}
           \cup {<<Transition(1, P), Transition(2, P)>> : P \in PolOptions}

\* reference energies: equally spaced, or degenerate below the top state
EnergyProfiles(n) ==
    {[k \in 1..n |-> k - 1], [k \in 1..n |-> IF k = n THEN 3 ELSE 0]}

DIdle ==
    /\ dpc = "idle"
    /\ QN = <<>>
    /\ excited_states = <<>>
    /\ decay_channels = <<>>
    /\ hamiltonian = <<>>
    /\ C_array = <<>>
    /\ Gamma = 0
    /\ indices = <<>>
    /\ arr = <<>>
    /\ states = <<>>
    /\ decayQN = "none"
    /\ C_out = <<>>

HInit ==
    /\ hpc = "start"
    /\ \E n \in 2..(MaxStates + 1) :
         /\ H_int \in EnergyProfiles(n)
         /\ couplings \in CouplingSeqs(n)
    /\ transitions \in TransitionSeqs
    /\ call = "none"
    /\ pols = <<>>
    /\ static = <<>>
    /\ coupled_states = <<>>
    /\ rates = <<>>
    /\ transformed = <<>>
    /\ idc = 0
    /\ status = "none"
    /\ result = <<>>

n_states == Len(H_int)
OmegasOf(ts) == [c \in 1..Len(ts) |-> ts[c].Omega] \o <<>>
DeltasOf(ts) == [c \in 1..Len(ts) |-> ts[c].delta] \o <<>>
\* lines 256-261: an empty polarization_symbols becomes None
PolsOf(ts) == [c \in 1..Len(ts) |-> ts[c].polarization_symbols] \o <<>>

\* the call ends with an exception
Raise(err) ==
    /\ status' = err
    /\ hpc' = "done"

\* lines 122-173: the static-frame Hamiltonian, or the exception of the
\* first field whose polarization symbol cannot be used
Build(name, P) ==
    /\ call' = name
    /\ pols' = P
    /\ IF BuilderError(couplings, OmegasOf(transitions), P) = "none"
       THEN /\ static' = BuildStatic(n_states, couplings, OmegasOf(transitions), P)
            /\ hpc' = "extract"
            /\ UNCHANGED status
       ELSE /\ Raise(BuilderError(couplings, OmegasOf(transitions), P))
            /\ UNCHANGED static
    /\ UNCHANGED <<H_int, couplings, transitions, coupled_states, rates,
                   transformed, idc, result>>
    /\ UNCHANGED dvars

\* lines 254-263
GenerateTotalSymbolicHamiltonian ==
    /\ hpc = "start"
    /\ Build("total", PolsOf(transitions))

\* called directly, with the polarization lists of the transitions or with
\* an empty list
GenerateSymbolicHamiltonian ==
    /\ hpc = "start"
    /\ \E P \in {<<>>, PolsOf(transitions)} : Build("generate", P)

\* a coupling strength without any oscillation, between the first and the
\* last state
StaticTerm == Term(<<"O", 0>>, "1", 1, 1, LZero)

WithStatic(H, n) ==
    [H EXCEPT ![1][n].terms = @ \cup {StaticTerm},
              ![n][1].terms = @ \cup {StaticTerm}]

\* called directly, with a Hamiltonian as the builder makes it or with one
\* that also holds a static coupling
SymbolicHamiltonianToRotatingFrame ==
    /\ hpc = "start"
    /\ BuilderError(couplings, OmegasOf(transitions), PolsOf(transitions)) = "none"
    /\ \E extra \in BOOLEAN :
          static' = Only({IF extra THEN WithStatic(H, n_states) ELSE H :
                          H \in {BuildStatic(n_states, couplings, OmegasOf(transitions),
                                             PolsOf(transitions))}})
    /\ call' = "frame"
    /\ pols' = PolsOf(transitions)
    /\ hpc' = "extract"
    /\ UNCHANGED <<H_int, couplings, transitions, coupled_states, rates,
                   transformed, idc, status, result>>
    /\ UNCHANGED dvars

\* lines 44-50
ExtractFrequencies ==
    /\ hpc = "extract"
    /\ \E r \in {ExtractCoupled(static, n_states)} :
          IF r.ok
          THEN /\ coupled_states' = r.coupled
               /\ hpc' = "solve"
               /\ UNCHANGED status
          ELSE /\ Raise("AssertionError")
               /\ UNCHANGED coupled_states
    /\ UNCHANGED <<H_int, couplings, transitions, call, pols, static, rates,
                   transformed, idc, result>>
    /\ UNCHANGED dvars

\* lines 53-64
SolveEquations ==
    /\ hpc = "solve"
    /\ \E s \in {Solve(n_states, coupled_states)} :
          IF s.solved
          THEN /\ rates' = Rates(n_states, s.sol)
               /\ hpc' = "transform"
               /\ UNCHANGED status
          ELSE /\ Raise("AttributeError")
               /\ UNCHANGED rates
    /\ UNCHANGED <<H_int, couplings, transitions, call, pols, static,
                   coupled_states, transformed, idc, result>>
    /\ UNCHANGED dvars

\* lines 67-76
TransformToRotatingFrame ==
    /\ hpc = "transform"
    /\ transformed' = ApplyFrame(static, n_states, rates)
    /\ hpc' = "substitute"
    /\ UNCHANGED <<H_int, couplings, transitions, call, pols, static,
                   coupled_states, rates, idc, status, result>>
    /\ UNCHANGED dvars

\* line 39: energies = np.diag(hamiltonian)
Energies == [k \in 1..n_states |-> static[k][k].lin] \o <<>>

\* lines 78-90
Substitute ==
    /\ hpc = "substitute"
    /\ \E energies \in {Energies} :
          transformed' =
              SubstituteEnergies(
                  SubstituteDetunings(transformed, n_states, energies, couplings,
                                      DeltasOf(transitions), 1),
                  n_states, energies, H_int, 1)
    /\ hpc' = "anchor"
    /\ idc' = 1
    /\ UNCHANGED <<H_int, couplings, transitions, call, pols, static,
                   coupled_states, rates, status, result>>
    /\ UNCHANGED dvars

\* lines 95-109, one coupling of the loop
ReAnchorCoupling ==
    /\ hpc = "anchor"
    /\ idc <= Len(couplings)
    /\ transformed' = ReAnchorOne(transformed, n_states, couplings[idc])
    /\ idc' = idc + 1
    /\ UNCHANGED <<hpc, H_int, couplings, transitions, call, pols, static,
                   coupled_states, rates, status, result>>
    /\ UNCHANGED dvars

\* line 111, for the direct call
ReturnTransformed ==
    /\ hpc = "anchor"
    /\ idc > Len(couplings)
    /\ call = "frame"
    /\ result' = transformed
    /\ status' = "ok"
    /\ hpc' = "done"
    /\ UNCHANGED <<H_int, couplings, transitions, call, pols, static,
                   coupled_states, rates, transformed, idc>>
    /\ UNCHANGED dvars

\* lines 175-186 (and 263, 278), for the two generating calls
RelabelConjugates ==
    /\ hpc = "anchor"
    /\ idc > Len(couplings)
    /\ call # "frame"
    /\ result' = Relabel(transformed, n_states, OmegasOf(transitions))
    /\ status' = "ok"
    /\ hpc' = "done"
    /\ UNCHANGED <<H_int, couplings, transitions, call, pols, static,
                   coupled_states, rates, transformed, idc>>
    /\ UNCHANGED dvars

HNext ==
    \/ GenerateTotalSymbolicHamiltonian
    \/ GenerateSymbolicHamiltonian
    \/ SymbolicHamiltonianToRotatingFrame
    \/ ExtractFrequencies
    \/ SolveEquations
    \/ TransformToRotatingFrame
    \/ Substitute
    \/ ReAnchorCoupling
    \/ ReturnTransformed
    \/ RelabelConjugates

HamInit == HInit /\ DIdle
HamSpec == HamInit /\ [][HNext]_vars

\* ---- properties of the Hamiltonian generator ----

Returned == hpc = "done" /\ status = "ok"
Raised == hpc = "done" /\ status # "ok"
Generating == call \in {"generate", "total"}

HalfRabi(c, conj) ==
    {[rabi |-> <<"O", c>>, conj |-> conj, pol |-> "1", main |-> 1, num |-> 1,
      phase |-> LZero]}

\* one ground and one excited state, one coupling of magnitude 1 with the
\* field [[0,1],[1,0]], one transition without polarization symbols, and
\* the reference diagonal [0, E_e]
TwoLevel ==
    /\ n_states = 2
    /\ H_int[1] = 0
    /\ Len(couplings) = 1
    /\ couplings[1].main_coupling = 1
    /\ couplings[1].fields = <<FieldMatrix(2, {<<1, 2>>})>>
    /\ Len(transitions) = 1
    /\ transitions[1].polarization_symbols = <<>>
    /\ Generating

\* C4 as the specification states it: the two-level system comes out as
\* [[0, Omega/2], [Omega_conj/2, delta]]
C4_Original ==
    (TwoLevel /\ hpc = "done") =>
        /\ status = "ok"
        /\ result = <<<<Entry(LZero, {}), Entry(LZero, HalfRabi(1, FALSE))>>,
                      <<Entry(LZero, HalfRabi(1, TRUE)),
                        Entry(LSym(<<"d", 1>>), {})>>>>

\* C4: for the two-level system generate_symbolic_hamiltonian returns
\* [[delta, Omega/2], [Omega_conj/2, 0]]: the detuning sits on the
\* ground-state diagonal and the excited-state diagonal is 0
C4_TwoLevelResult ==
    (TwoLevel /\ hpc = "done") =>
        /\ status = "ok"
        /\ result = <<<<Entry(LSym(<<"d", 1>>), {}), Entry(LZero, HalfRabi(1, FALSE))>>,
                      <<Entry(LZero, HalfRabi(1, TRUE)), Entry(LZero, {})>>>>

C4_Witness == TwoLevel /\ Returned /\ H_int[2] # 0

\* the value of a diagonal entry when every detuning symbol is set to zero
AtZeroDetuning(f) == [sym \in {x \in DOMAIN f : x[1] # "d"} |-> f[sym]] @@ LZero

Manifolds(cp) == SeqToSet(cp.ground_states) \cup SeqToSet(cp.excited_states)

\* no later coupling of the re-anchoring loop touches a state of coupling c
Undisturbed(c) ==
    \A later \in (c + 1)..Len(couplings) :
        Manifolds(couplings[later]) \cap Manifolds(couplings[c]) = {}

\* C5 as the specification states it: the diagonal vanishes at zero
\* detuning at every index of every manifold of every coupling
C5_Original ==
    Returned =>
        \A c \in 1..Len(couplings) : \A k \in Manifolds(couplings[c]) :
            AtZeroDetuning(result[k][k].lin) = LZero

\* C5: for every coupling whose manifolds share no state with the manifolds
\* of a later coupling, the returned diagonal evaluates to 0 at zero
\* detuning at the coupling's reference ground state and at its reference
\* excited state
C5_ReferenceStatesAnchored ==
    Returned =>
        \A c \in 1..Len(couplings) :
            Undisturbed(c) =>
                /\ AtZeroDetuning(result[couplings[c].ground_main]
                                        [couplings[c].ground_main].lin) = LZero
                /\ AtZeroDetuning(result[couplings[c].excited_main]
                                        [couplings[c].excited_main].lin) = LZero

\* two couplings on disjoint states: the residual of the first one's
\* reference states was removed and the second coupling left them alone
C5_Witness ==
    /\ Returned
    /\ Len(couplings) = 2
    /\ Undisturbed(1)
    /\ H_int[couplings[1].excited_main] # 0

\* a manifold state that is left off zero
C5_OffsetWitness ==
    /\ Returned
    /\ \E c \in 1..Len(couplings) : \E k \in Manifolds(couplings[c]) :
          AtZeroDetuning(result[k][k].lin) # LZero

\* every recorded pair is rotated at its frequency: a_i - a_j = w
RatesSolveEquations ==
    \A m \in 1..Len(coupled_states) :
        LSub(rates[coupled_states[m][1]], rates[coupled_states[m][2]])
            = LSym(coupled_states[m][3])

\* no off-diagonal entry of the returned matrix holds a phase factor
NoPhaseFactor ==
    \A i \in 1..n_states, j \in 1..n_states :
        \A t \in result[i][j].terms : t.phase = LZero

\* every term above the diagonal of the static-frame Hamiltonian carries a
\* factor exp(i*w*t) and every term below it a factor exp(-i*w*t), as the
\* builder makes them
PurelyOscillating ==
    \A i \in 1..n_states, j \in 1..n_states :
        \A t \in static[i][j].terms :
            \E c \in 1..Len(couplings) :
                t.phase = IF i < j THEN LSym(<<"w", c>>) ELSE LNeg(LSym(<<"w", c>>))

Coupled(k) ==
    \E m \in 1..Len(coupled_states) : k \in {coupled_states[m][1], coupled_states[m][2]}

C6_FreeStateWitness ==
    /\ Returned
    /\ \E k \in 1..n_states : ~Coupled(k) /\ rates[k] = LZero
    /\ coupled_states # <<>>

\* C7 as the specification states it: a call of
\* generate_total_symbolic_hamiltonian with couplings and transitions of
\* different lengths ends with an error and returns no Hamiltonian
C7_MismatchIsFatal ==
    (call = "total" /\ hpc = "done" /\ Len(couplings) # Len(transitions)) =>
        /\ status # "ok"
        /\ result = <<>>

\* the nonzero entries above the diagonal, and the ones that do not hold
\* exactly one frequency symbol
UpperPairs == {p \in (1..n_states) \X (1..n_states) :
                  p[1] < p[2] /\ NonZero(static[p[1]][p[2]])}
BadPairs == {p \in UpperPairs : Cardinality(OmegaSyms(static[p[1]][p[2]])) # 1}

\* C8: when some nonzero entry above the diagonal holds no or several
\* frequency symbols the transform ends with an AssertionError, no rate, no
\* transformed matrix and no result; otherwise exactly one triple (i, j, w)
\* is recorded per nonzero entry above the diagonal and none elsewhere
C8_AllOrNothing ==
    (hpc \notin {"start", "extract"} /\ static # <<>>) =>
        IF BadPairs # {}
        THEN /\ status = "AssertionError"
             /\ hpc = "done"
             /\ coupled_states = <<>> /\ rates = <<>>
             /\ transformed = <<>> /\ result = <<>>
        ELSE /\ status # "AssertionError"
             /\ Len(coupled_states) = Cardinality(UpperPairs)
             /\ \A m \in 1..Len(coupled_states) :
                   /\ <<coupled_states[m][1], coupled_states[m][2]>> \in UpperPairs
                   /\ OmegaSyms(static[coupled_states[m][1]][coupled_states[m][2]])
                         = {coupled_states[m][3]}
             /\ \A p \in UpperPairs :
                   \E m \in 1..Len(coupled_states) :
                       <<coupled_states[m][1], coupled_states[m][2]>> = p

\* two couplings put different frequency symbols on one pair of states
C8_Witness ==
    /\ Raised
    /\ status = "AssertionError"
    /\ \E p \in BadPairs : Cardinality(OmegaSyms(static[p[1]][p[2]])) = 2

\* an entry without any frequency symbol
C8_StaticWitness ==
    /\ Raised
    /\ status = "AssertionError"
    /\ \E p \in BadPairs : OmegaSyms(static[p[1]][p[2]]) = {}

\* the fields the builder visits: coupling c has a Rabi symbol
Visited == {v \in (1..Min(Len(couplings), Len(transitions))) \X (1..2) :
               v[2] <= Len(couplings[v[1]].fields)}

\* a polarization symbol is supplied for field f of coupling c
Supplied(c, f) ==
    /\ pols # <<>>
    /\ pols[c] # <<>>
    /\ f <= Len(pols[c])
    /\ pols[c][f] # "None"
\* no polarization list at all, or none (None or empty) for coupling c
NoList(c) == pols = <<>> \/ pols[c] = <<>>
\* coupling c has a list, which holds no symbol for field f
Missing(c, f) == ~NoList(c) /\ ~Supplied(c, f)

\* the contribution of field f of coupling c is in H[i,j] and in H[j,i]
Contributes(c, f, pol) ==
    \A i \in 1..n_states, j \in 1..n_states :
        (i # j /\ couplings[c].fields[f][i][j] # 0) =>
            \E t \in static[i][j].terms :
                /\ t.rabi = <<"O", c>>
                /\ t.pol = pol
                /\ t.main = couplings[c].main_coupling
                /\ t.num > 0

\* C9 as the specification states it: a field without a polarization symbol
\* is added without the factor and without error
C9_Original ==
    (Generating /\ hpc # "start") =>
        /\ status \notin {"IndexError", "TypeError"}
        /\ \A v \in Visited :
              Contributes(v[1], v[2],
                          IF Supplied(v[1], v[2]) THEN pols[v[1]][v[2]] ELSE "1")

\* C9: the factor is omitted, without error, only when no polarization list
\* is supplied or the coupling's entry is None or empty; when the coupling
\* has a non-empty list that is shorter than its fields or holds a None at
\* a field's position the builder raises IndexError or TypeError and no
\* Hamiltonian is built
C9_PolarizationFactor ==
    (Generating /\ hpc # "start") =>
        IF \E v \in Visited : Missing(v[1], v[2])
        THEN /\ status \in {"IndexError", "TypeError"}
             /\ hpc = "done"
             /\ static = <<>> /\ result = <<>>
        ELSE /\ status \notin {"IndexError", "TypeError"}
             /\ \A v \in Visited :
                   Contributes(v[1], v[2],
                               IF Supplied(v[1], v[2]) THEN pols[v[1]][v[2]] ELSE "1")

\* a two-field coupling whose transition lists one polarization symbol
C9_Witness ==
    /\ Generating
    /\ Raised
    /\ status = "IndexError"
    /\ \E v \in Visited : Missing(v[1], v[2]) /\ v[2] > Len(pols[v[1]])

\* a None inside the list
C9_NoneWitness ==
    /\ Generating
    /\ status = "TypeError"

\* a supplied symbol and an omitted factor, both built
C9_BuiltWitness ==
    /\ Generating
    /\ Returned
    /\ \E v \in Visited : Supplied(v[1], v[2])

Init == DecayInit
Next == DNext
Spec == Init /\ [][Next]_vars

====
